---- MODULE Spec2Model ----
(***************************************************************************)
(* Model of the Gree infrared remote-control codec (src/src/lib.rs).       *)
(*                                                                         *)
(* A caller builds a Controller value field by field, encodes it into the *)
(* 70 pulse codes of one frame, the frame may be altered on its way to    *)
(* the receiver, and the receiver decodes the 70 codes it was handed.     *)
(* Frame positions are counted from 0 as in the source; sequences are     *)
(* 1-based, so position p of a frame f is f[p + 1] (operator At).         *)
(***************************************************************************)
EXTENDS Integers, Sequences, FiniteSets, TLC

VARIABLES ctl, made, codes, res, out, pc, nset, ncorrupt

vars == <<ctl, made, codes, res, out, pc, nset, ncorrupt>>

(***************************************************************************)
(* Bounds of the model.                                                    *)
(***************************************************************************)
\* field assignments by the caller before encoding, in Spec
MaxSets == 2
\* field assignments by the caller before encoding, in SpecRx
MaxRxSets == 1
\* symbols replaced between encode and decode, in SpecRx
MaxCorrupt == 1
\* symbols replaced between encode and decode, in SpecNoise
MaxNoise == 2
\* largest argument handed to Temperature::from_centigrade
MaxDegrees == 32
\* largest half_hours the caller stores in TimerSetting (a u8 field)
MaxHalfHours == 49

(***************************************************************************)
(* u8 arithmetic.                                                          *)
(***************************************************************************)
Shl(x, i) == (x * (2 ^ i)) % 256

Shr(x, i) == x \div (2 ^ i)

\* a | b and a & b on u8, bit by bit from the least significant
RECURSIVE BitOr(_, _)
BitOr(a, b) ==
    IF a = 0 THEN b
    ELSE IF b = 0 THEN a
    ELSE (IF a % 2 = 1 \/ b % 2 = 1 THEN 1 ELSE 0) + 2 * BitOr(a \div 2, b \div 2)

RECURSIVE BitAnd(_, _)
BitAnd(a, b) ==
    IF a = 0 \/ b = 0 THEN 0
    ELSE (IF a % 2 = 1 /\ b % 2 = 1 THEN 1 ELSE 0) + 2 * BitAnd(a \div 2, b \div 2)

BoolAsU8(b) == IF b THEN 1 ELSE 0

(***************************************************************************)
(* enum Code and its conversions.                                          *)
(***************************************************************************)
Code == {"Start", "Continue", "End", "Short", "Long"}

CodeFrom(value) == IF value THEN "Long" ELSE "Short"

TryIntoU8(c) ==
    IF c \in {"Start", "Continue", "End"} THEN [err |-> "UnexpectedMarker", v |-> 0]
    ELSE IF c = "Short" THEN [err |-> "None", v |-> 0]
    ELSE [err |-> "None", v |-> 1]

TryIntoBool(c) ==
    IF c \in {"Start", "Continue", "End"} THEN [err |-> "UnexpectedMarker", v |-> FALSE]
    ELSE IF c = "Short" THEN [err |-> "None", v |-> FALSE]
    ELSE [err |-> "None", v |-> TRUE]

\* the symbol at 0-based position p of a frame
At(f, p) == f[p + 1]

\* (0..n).map(|i| Code::from(a >> i & 1 != 0))
BitsLsb(a, n) == [i \in 1..n |-> CodeFrom(BitAnd(Shr(a, i - 1), 1) # 0)]

(***************************************************************************)
(* The iterator over the received codes: a cursor pos into the array.      *)
(***************************************************************************)
IterNext(f, pos) ==
    IF pos < Len(f) THEN [some |-> TRUE, v |-> f[pos + 1], pos |-> pos + 1]
    ELSE [some |-> FALSE, v |-> "Short", pos |-> Len(f)]

IterNth(f, pos, n) ==
    IF pos + n < Len(f) THEN [some |-> TRUE, v |-> f[pos + n + 1], pos |-> pos + n + 1]
    ELSE [some |-> FALSE, v |-> "Short", pos |-> Len(f)]

\* iter.next().ok_or(DecodeError::Eof)?.try_into()? for u8
NextU8(f, pos) ==
    LET n == IterNext(f, pos) IN
    IF ~n.some THEN [err |-> "Eof", v |-> 0, pos |-> n.pos]
    ELSE [err |-> TryIntoU8(n.v).err, v |-> TryIntoU8(n.v).v, pos |-> n.pos]

\* iter.next().ok_or(DecodeError::Eof)?.try_into()? for bool
NextBool(f, pos) ==
    LET n == IterNext(f, pos) IN
    IF ~n.some THEN [err |-> "Eof", v |-> FALSE, pos |-> n.pos]
    ELSE [err |-> TryIntoBool(n.v).err, v |-> TryIntoBool(n.v).v, pos |-> n.pos]

\* for i in 0..n { let t: u8 = next()?.try_into()?; a |= t << i; }
RECURSIVE ReadBits(_, _, _, _, _)
ReadBits(f, pos, i, n, a) ==
    IF i >= n THEN [err |-> "None", v |-> a, pos |-> pos]
    ELSE LET t == NextU8(f, pos) IN
         IF t.err # "None" THEN [err |-> t.err, v |-> a, pos |-> t.pos]
         ELSE ReadBits(f, t.pos, i + 1, n, BitOr(a, Shl(t.v, i)))

\* for v in codes.iter_mut() { *v = iter.next().ok_or(DecodeError::Eof)?; }
ReadCodes(f, pos, n) ==
    IF pos + n > Len(f) THEN [err |-> "Eof", v |-> <<>>, pos |-> Len(f)]
    ELSE [err |-> "None", v |-> SubSeq(f, pos + 1, pos + n), pos |-> pos + n]

(***************************************************************************)
(* enum Mode.                                                              *)
(***************************************************************************)
ModeNames == <<"Auto", "Cold", "Dry", "Wind", "Hot">>

Mode == {ModeNames[i] : i \in 1..Len(ModeNames)}

\* *self as u8
ModeAsU8(m) == (CHOOSE i \in 1..Len(ModeNames) : ModeNames[i] = m) - 1

ModeEncode(m) ==
    LET a == ModeAsU8(m) IN
    <<CodeFrom(BitAnd(Shr(a, 0), 1) # 0),
      CodeFrom(BitAnd(Shr(a, 1), 1) # 0),
      CodeFrom(BitAnd(Shr(a, 2), 1) # 0)>>

ModeDecode(f, pos) ==
    LET a == NextU8(f, pos) IN
    IF a.err # "None" THEN [err |-> a.err, v |-> "Auto", pos |-> a.pos] ELSE
    LET b == NextU8(f, a.pos) IN
    IF b.err # "None" THEN [err |-> b.err, v |-> "Auto", pos |-> b.pos] ELSE
    LET c == NextU8(f, b.pos) IN
    IF c.err # "None" THEN [err |-> c.err, v |-> "Auto", pos |-> c.pos] ELSE
    LET n == BitOr(BitOr(Shl(a.v, 0), Shl(b.v, 1)), Shl(c.v, 2)) IN
    IF n = 0 THEN [err |-> "None", v |-> "Auto", pos |-> c.pos]
    ELSE IF n = 1 THEN [err |-> "None", v |-> "Cold", pos |-> c.pos]
    ELSE IF n = 2 THEN [err |-> "None", v |-> "Dry", pos |-> c.pos]
    ELSE IF n = 3 THEN [err |-> "None", v |-> "Wind", pos |-> c.pos]
    ELSE IF n = 4 THEN [err |-> "None", v |-> "Hot", pos |-> c.pos]
    ELSE [err |-> "InvalidMode", v |-> "Auto", pos |-> c.pos]

(***************************************************************************)
(* enum Fan.                                                               *)
(***************************************************************************)
FanNames == <<"Auto", "Level1", "Level2", "Level3">>

Fan == {FanNames[i] : i \in 1..Len(FanNames)}

FanAsU8(x) == (CHOOSE i \in 1..Len(FanNames) : FanNames[i] = x) - 1

FanEncode(x) ==
    LET a == FanAsU8(x) IN
    <<CodeFrom(BitAnd(Shr(a, 0), 1) # 0), CodeFrom(BitAnd(Shr(a, 1), 1) # 0)>>

FanDecode(f, pos) ==
    LET a == NextU8(f, pos) IN
    IF a.err # "None" THEN [err |-> a.err, v |-> "Auto", pos |-> a.pos] ELSE
    LET b == NextU8(f, a.pos) IN
    IF b.err # "None" THEN [err |-> b.err, v |-> "Auto", pos |-> b.pos] ELSE
    LET n == BitOr(Shl(a.v, 0), Shl(b.v, 1)) IN
    IF n = 0 THEN [err |-> "None", v |-> "Auto", pos |-> b.pos]
    ELSE IF n = 1 THEN [err |-> "None", v |-> "Level1", pos |-> b.pos]
    ELSE IF n = 2 THEN [err |-> "None", v |-> "Level2", pos |-> b.pos]
    ELSE IF n = 3 THEN [err |-> "None", v |-> "Level3", pos |-> b.pos]
    ELSE [err |-> "InvalidFan", v |-> "Auto", pos |-> b.pos]

(***************************************************************************)
(* struct Temperature(u8).                                                 *)
(***************************************************************************)
FromCentigrade(degrees) ==
    IF degrees < 16 \/ degrees > 30 THEN [some |-> FALSE, v |-> 0]
    ELSE [some |-> TRUE, v |-> degrees]

TemperatureEncode(t) ==
    LET a == t - 16 IN
    <<CodeFrom(BitAnd(Shr(a, 0), 1) # 0),
      CodeFrom(BitAnd(Shr(a, 1), 1) # 0),
      CodeFrom(BitAnd(Shr(a, 2), 1) # 0),
      CodeFrom(BitAnd(Shr(a, 3), 1) # 0)>>

\* Temperature::decode that compares against 30 - 15
TemperatureDecodeLax(f, pos) ==
    LET a == ReadBits(f, pos, 0, 4, 0) IN
    IF a.err # "None" THEN [err |-> a.err, v |-> 0, pos |-> a.pos]
    ELSE IF a.v > 30 - 15 THEN [err |-> "InvalidTemperature", v |-> 0, pos |-> a.pos]
    ELSE [err |-> "None", v |-> a.v + 16, pos |-> a.pos]

TemperatureDecode(f, pos) ==
    LET a == ReadBits(f, pos, 0, 4, 0) IN
    IF a.err # "None" THEN [err |-> a.err, v |-> 0, pos |-> a.pos]
    ELSE IF a.v > 30 - 16 THEN [err |-> "InvalidTemperature", v |-> 0, pos |-> a.pos]
    ELSE [err |-> "None", v |-> a.v + 16, pos |-> a.pos]

(***************************************************************************)
(* struct TimerSetting { enabled, half_hours }.                            *)
(***************************************************************************)
\* impl TryFrom<u8> for TimerSetting
TimerTryFrom(value) ==
    LET half == BitAnd(value, 1)
        tens == BitAnd(Shr(value, 1), 3)
        enabled == BitAnd(Shr(value, 3), 1) # 0
        units == Shr(value, 4)
    IN IF tens > 2 \/ units > 9
       THEN [err |-> "InvalidTimerSetting", v |-> [enabled |-> FALSE, half_hours |-> 0]]
       ELSE [err |-> "None",
             v |-> [enabled |-> enabled, half_hours |-> (tens * 10 + units) * 2 + half]]

\* Into<u8> that keeps the whole hour count in units
TimerIntoU8NoCarry(t) ==
    LET hours == t.half_hours \div 2
        half == t.half_hours % 2
        tens == hours \div 10
        units == hours
    IN BitOr(BitOr(BitOr(half, Shl(tens, 1)), Shl(BoolAsU8(t.enabled), 3)), Shl(units, 4))

\* impl Into<u8> for &TimerSetting
TimerIntoU8(t) ==
    LET hours == t.half_hours \div 2
        half == t.half_hours % 2
        tens == hours \div 10
        units == hours % 10
    IN BitOr(BitOr(BitOr(half, Shl(tens, 1)), Shl(BoolAsU8(t.enabled), 3)), Shl(units, 4))

TimerEncode(t) == BitsLsb(TimerIntoU8(t), 8)

TimerDecode(f, pos) ==
    LET a == ReadBits(f, pos, 0, 8, 0) IN
    IF a.err # "None"
    THEN [err |-> a.err, v |-> [enabled |-> FALSE, half_hours |-> 0], pos |-> a.pos]
    ELSE [err |-> TimerTryFrom(a.v).err, v |-> TimerTryFrom(a.v).v, pos |-> a.pos]

(***************************************************************************)
(* enum SwingMode.                                                         *)
(***************************************************************************)
SwingNames ==
    <<"Off", "On", "Unknown2", "Unknown3", "Unknown4", "Unknown5", "Unknown6",
      "Unknown7", "Unknown8", "Unknown9", "Unknown10", "Unknown11", "Unknown12",
      "Unknown13", "Unknown14", "Unknown15">>

SwingMode == {SwingNames[i] : i \in 1..Len(SwingNames)}

SwingAsU8(x) == (CHOOSE i \in 1..Len(SwingNames) : SwingNames[i] = x) - 1

SwingEncode(x) == BitsLsb(SwingAsU8(x), 4)

SwingDecode(f, pos) ==
    LET a == ReadBits(f, pos, 0, 4, 0) IN
    IF a.err # "None" THEN [err |-> a.err, v |-> "Off", pos |-> a.pos]
    ELSE IF a.v \in 1..15 THEN [err |-> "None", v |-> SwingNames[a.v + 1], pos |-> a.pos]
    ELSE [err |-> "None", v |-> "Off", pos |-> a.pos]

(***************************************************************************)
(* enum TemperatureDisplay.                                                *)
(***************************************************************************)
DisplayNames == <<"Setting", "Room", "Indoor", "Outdoor">>

TemperatureDisplay == {DisplayNames[i] : i \in 1..Len(DisplayNames)}

DisplayAsU8(x) == (CHOOSE i \in 1..Len(DisplayNames) : DisplayNames[i] = x) - 1

DisplayEncode(x) == BitsLsb(DisplayAsU8(x), 2)

DisplayDecode(f, pos) ==
    LET a == NextBool(f, pos) IN
    IF a.err # "None" THEN [err |-> a.err, v |-> "Setting", pos |-> a.pos] ELSE
    LET b == NextBool(f, a.pos) IN
    IF b.err # "None" THEN [err |-> b.err, v |-> "Setting", pos |-> b.pos]
    ELSE IF ~a.v /\ ~b.v THEN [err |-> "None", v |-> "Setting", pos |-> b.pos]
    ELSE IF a.v /\ ~b.v THEN [err |-> "None", v |-> "Room", pos |-> b.pos]
    ELSE IF ~a.v /\ b.v THEN [err |-> "None", v |-> "Indoor", pos |-> b.pos]
    ELSE [err |-> "None", v |-> "Outdoor", pos |-> b.pos]

(***************************************************************************)
(* The magic blocks.                                                       *)
(***************************************************************************)
MAGIC_1 == <<"Short", "Short", "Short", "Long", "Short", "Long", "Short">>

MAGIC_2 == <<"Short", "Short", "Short", "Long", "Long", "Long", "Short">>

MAGIC_3 == <<"Short", "Long", "Short">>

MAGIC_4 == <<"Short", "Short", "Long">>

\* the first magic check with a single accepted pattern
check_magic_code1Single(f, pos) ==
    LET c == ReadCodes(f, pos, 7) IN
    IF c.err # "None" THEN [err |-> c.err, arg |-> 0, pos |-> c.pos]
    ELSE IF c.v = MAGIC_1 THEN [err |-> "None", arg |-> 0, pos |-> c.pos]
    ELSE [err |-> "InvalidMagic", arg |-> 1, pos |-> c.pos]

check_magic_code1(f, pos) ==
    LET c == ReadCodes(f, pos, 7) IN
    IF c.err # "None" THEN [err |-> c.err, arg |-> 0, pos |-> c.pos]
    ELSE IF c.v = MAGIC_1 \/ c.v = MAGIC_2 THEN [err |-> "None", arg |-> 0, pos |-> c.pos]
    ELSE [err |-> "InvalidMagic", arg |-> 1, pos |-> c.pos]

check_magic_code2(f, pos) ==
    LET c == ReadCodes(f, pos, 3) IN
    IF c.err # "None" THEN [err |-> c.err, arg |-> 0, pos |-> c.pos]
    ELSE IF c.v = MAGIC_3 THEN [err |-> "None", arg |-> 0, pos |-> c.pos]
    ELSE [err |-> "InvalidMagic", arg |-> 2, pos |-> c.pos]

check_magic_code3(f, pos) ==
    LET c == ReadCodes(f, pos, 3) IN
    IF c.err # "None" THEN [err |-> c.err, arg |-> 0, pos |-> c.pos]
    ELSE IF c.v = MAGIC_4 THEN [err |-> "None", arg |-> 0, pos |-> c.pos]
    ELSE [err |-> "InvalidMagic", arg |-> 3, pos |-> c.pos]

(***************************************************************************)
(* struct Controller: checksum and encode.                                 *)
(***************************************************************************)
RECURSIVE SumLow(_, _, _)
SumLow(data, i, n) ==
    IF i > n \/ i > Len(data) THEN 0 ELSE BitAnd(data[i], 15) + SumLow(data, i + 1, n)

RECURSIVE SumHigh(_, _, _)
SumHigh(data, i, n) ==
    IF i > n \/ i > Len(data) THEN 0 ELSE Shr(data[i], 4) + SumHigh(data, i + 1, n)

\* sum = 10; low halves of the first 4 bytes; high halves of the next 3; & 0xF
checksum_block(data) ==
    LET sum == (10 + SumLow(data, 1, 4) + SumHigh(data, 5, 7)) % 256
    IN BitAnd(sum, 15)

ChecksumBlocks(c) ==
    <<BitOr(ModeAsU8(c.mode), Shl(BoolAsU8(c.on), 3)),
      c.temperature - 16,
      0,
      BitOr(BoolAsU8(c.ventilate), 80),
      BitOr(SwingAsU8(c.v_swing), Shl(SwingAsU8(c.h_swing), 4)),
      BitOr(BitOr(DisplayAsU8(c.temperature_display), Shl(BoolAsU8(c.i_feel), 2)),
            Shl(4, 3)),
      0>>

checksum(c) == checksum_block(ChecksumBlocks(c))

\* code35 that emits the second accepted pattern as the first magic block
Code35SecondMagic(c) ==
    ModeEncode(c.mode) \o <<CodeFrom(c.on)>> \o FanEncode(c.fan)
    \o <<CodeFrom(c.swing)>> \o <<CodeFrom(c.sleep)>>
    \o TemperatureEncode(c.temperature) \o TimerEncode(c.timing)
    \o <<CodeFrom(c.strong)>> \o <<CodeFrom(c.light)>> \o <<CodeFrom(c.anion)>>
    \o <<CodeFrom(c.dry)>> \o <<CodeFrom(c.ventilate)>>
    \o MAGIC_2 \o MAGIC_3

Code35(c) ==
    ModeEncode(c.mode) \o <<CodeFrom(c.on)>> \o FanEncode(c.fan)
    \o <<CodeFrom(c.swing)>> \o <<CodeFrom(c.sleep)>>
    \o TemperatureEncode(c.temperature) \o TimerEncode(c.timing)
    \o <<CodeFrom(c.strong)>> \o <<CodeFrom(c.light)>> \o <<CodeFrom(c.anion)>>
    \o <<CodeFrom(c.dry)>> \o <<CodeFrom(c.ventilate)>>
    \o MAGIC_1 \o MAGIC_3

\* code32 that emits wifi ahead of the magic block
Code32WifiFirst(c) ==
    SwingEncode(c.v_swing) \o SwingEncode(c.h_swing)
    \o DisplayEncode(c.temperature_display) \o <<CodeFrom(c.i_feel)>>
    \o <<CodeFrom(c.wifi)>> \o MAGIC_4
    \o [i \in 1..11 |-> "Short"]
    \o <<CodeFrom(c.econo)>> \o <<"Short">>
    \o BitsLsb(checksum(c), 4)

Code32(c) ==
    SwingEncode(c.v_swing) \o SwingEncode(c.h_swing)
    \o DisplayEncode(c.temperature_display) \o <<CodeFrom(c.i_feel)>>
    \o MAGIC_4 \o <<CodeFrom(c.wifi)>>
    \o [i \in 1..11 |-> "Short"]
    \o <<CodeFrom(c.econo)>> \o <<"Short">>
    \o BitsLsb(checksum(c), 4)

Encode(c) == <<"Start">> \o Code35(c) \o <<"Continue">> \o Code32(c) \o <<"End">>

(***************************************************************************)
(* Controller::decode.  Result<Controller, DecodeError> is a record: ok,   *)
(* the error variant err with its payload arg, and the value val.          *)
(***************************************************************************)
InitialController ==
    [mode |-> "Auto", on |-> FALSE, fan |-> "Auto", swing |-> FALSE, sleep |-> FALSE,
     temperature |-> FromCentigrade(16).v,
     timing |-> [enabled |-> FALSE, half_hours |-> 0],
     strong |-> FALSE, light |-> FALSE, anion |-> FALSE, dry |-> FALSE,
     ventilate |-> FALSE, v_swing |-> "Off", h_swing |-> "Off",
     temperature_display |-> "Setting", i_feel |-> FALSE, wifi |-> FALSE,
     econo |-> FALSE]

Ok(v) == [ok |-> TRUE, err |-> "None", arg |-> 0, val |-> v]

Err(e, a) == [ok |-> FALSE, err |-> e, arg |-> a, val |-> InitialController]

\* the tail that packs the computed checksum into the high nibble
DecodeTailSwapped(f, pos, value) ==
    LET sum == ReadBits(f, pos, 0, 4, 0) IN
    IF sum.err # "None" THEN Err(sum.err, 0) ELSE
    LET checksum_calc == checksum(value) IN
    IF sum.v # checksum_calc THEN Err("Checksum", BitOr(Shl(checksum_calc, 4), sum.v)) ELSE
    LET e == IterNext(f, sum.pos) IN
    IF ~e.some THEN Err("Eof", 0)
    ELSE IF e.v # "End" THEN Err("InvalidMarker", 0)
    ELSE Ok(value)

\* the four checksum symbols, the comparison, and the trailing End
DecodeTail(f, pos, value) ==
    LET sum == ReadBits(f, pos, 0, 4, 0) IN
    IF sum.err # "None" THEN Err(sum.err, 0) ELSE
    LET checksum_calc == checksum(value) IN
    IF sum.v # checksum_calc THEN Err("Checksum", BitOr(Shl(sum.v, 4), checksum_calc)) ELSE
    LET e == IterNext(f, sum.pos) IN
    IF ~e.some THEN Err("Eof", 0)
    ELSE IF e.v # "End" THEN Err("InvalidMarker", 0)
    ELSE Ok(value)

\* the second half of the frame, after Continue
DecodeSecond(f, pos, first) ==
    LET v_swing == SwingDecode(f, pos) IN
    IF v_swing.err # "None" THEN Err(v_swing.err, 0) ELSE
    LET h_swing == SwingDecode(f, v_swing.pos) IN
    IF h_swing.err # "None" THEN Err(h_swing.err, 0) ELSE
    LET temperature_display == DisplayDecode(f, h_swing.pos) IN
    IF temperature_display.err # "None" THEN Err(temperature_display.err, 0) ELSE
    LET i_feel == NextBool(f, temperature_display.pos) IN
    IF i_feel.err # "None" THEN Err(i_feel.err, 0) ELSE
    LET m3 == check_magic_code3(f, i_feel.pos) IN
    IF m3.err # "None" THEN Err(m3.err, m3.arg) ELSE
    LET wifi == NextBool(f, m3.pos) IN
    IF wifi.err # "None" THEN Err(wifi.err, 0) ELSE
    LET skipped == IterNth(f, wifi.pos, 11) IN
    IF ~skipped.some THEN Err("Eof", 0) ELSE
    LET power_save == TryIntoBool(skipped.v) IN
    IF power_save.err # "None" THEN Err(power_save.err, 0) ELSE
    LET ignored == IterNext(f, skipped.pos) IN
    IF ~ignored.some THEN Err("Eof", 0) ELSE
    DecodeTail(f, ignored.pos,
               [first EXCEPT !.v_swing = v_swing.v, !.h_swing = h_swing.v,
                             !.temperature_display = temperature_display.v,
                             !.i_feel = i_feel.v, !.wifi = wifi.v,
                             !.econo = power_save.v])

\* the first half of the frame, from the symbol after Start up to Continue
DecodeFirst(f, pos) ==
    LET mode == ModeDecode(f, pos) IN
    IF mode.err # "None" THEN Err(mode.err, 0) ELSE
    LET on == NextBool(f, mode.pos) IN
    IF on.err # "None" THEN Err(on.err, 0) ELSE
    LET fan == FanDecode(f, on.pos) IN
    IF fan.err # "None" THEN Err(fan.err, 0) ELSE
    LET swing == NextBool(f, fan.pos) IN
    IF swing.err # "None" THEN Err(swing.err, 0) ELSE
    LET sleep == NextBool(f, swing.pos) IN
    IF sleep.err # "None" THEN Err(sleep.err, 0) ELSE
    LET temperature == TemperatureDecode(f, sleep.pos) IN
    IF temperature.err # "None" THEN Err(temperature.err, 0) ELSE
    LET timing == TimerDecode(f, temperature.pos) IN
    IF timing.err # "None" THEN Err(timing.err, 0) ELSE
    LET humidification == NextBool(f, timing.pos) IN
    IF humidification.err # "None" THEN Err(humidification.err, 0) ELSE
    LET light == NextBool(f, humidification.pos) IN
    IF light.err # "None" THEN Err(light.err, 0) ELSE
    LET anion == NextBool(f, light.pos) IN
    IF anion.err # "None" THEN Err(anion.err, 0) ELSE
    LET dry == NextBool(f, anion.pos) IN
    IF dry.err # "None" THEN Err(dry.err, 0) ELSE
    LET ventilate == NextBool(f, dry.pos) IN
    IF ventilate.err # "None" THEN Err(ventilate.err, 0) ELSE
    LET m1 == check_magic_code1(f, ventilate.pos) IN
    IF m1.err # "None" THEN Err(m1.err, m1.arg) ELSE
    LET m2 == check_magic_code2(f, m1.pos) IN
    IF m2.err # "None" THEN Err(m2.err, m2.arg) ELSE
    LET c == IterNext(f, m2.pos) IN
    IF ~c.some THEN Err("Eof", 0) ELSE
    IF c.v # "Continue" THEN Err("InvalidMarker", 0) ELSE
    DecodeSecond(f, c.pos,
                 [InitialController EXCEPT
                     !.mode = mode.v, !.on = on.v, !.fan = fan.v, !.swing = swing.v,
                     !.sleep = sleep.v, !.temperature = temperature.v,
                     !.timing = timing.v, !.strong = humidification.v,
                     !.light = light.v, !.anion = anion.v, !.dry = dry.v,
                     !.ventilate = ventilate.v])

\* the marker test without the last position
MarkersOkNoEnd(f) == At(f, 0) = "Start" /\ At(f, 36) = "Continue"

\* codes[0], codes[36], codes[69] must be Start, Continue, End
MarkersOk(f) == At(f, 0) = "Start" /\ At(f, 36) = "Continue" /\ At(f, 69) = "End"

Decode(f) ==
    IF ~MarkersOk(f) THEN Err("InvalidMarker", 0) ELSE
    LET s == IterNext(f, 0) IN
    IF ~s.some THEN Err("Eof", 0)
    ELSE IF s.v # "Start" THEN Err("InvalidMarker", 0)
    ELSE DecodeFirst(f, s.pos)

(***************************************************************************)
(* The state machine.                                                      *)
(*   ctl      the Controller the caller holds                              *)
(*   made     the last call of Temperature::from_centigrade: its argument  *)
(*            and whether it returned Some                                 *)
(*   codes    the 70 codes handed to Controller::decode                    *)
(*   res      the result of Controller::decode(codes)                      *)
(*   out      the codes of encoding the decoded value again               *)
(*   pc       build -> frame -> done -> recoded                            *)
(*   nset     field assignments made so far                                *)
(*   ncorrupt symbols replaced in codes so far                             *)
(***************************************************************************)
BoolFields ==
    {"on", "swing", "sleep", "strong", "light", "anion", "dry", "ventilate",
     "i_feel", "wifi", "econo"}

NotDecoded == Err("NotDecoded", 0)

Init ==
    /\ ctl = InitialController
    /\ made = [arg |-> 16, some |-> TRUE]
    /\ codes = <<>>
    /\ res = NotDecoded
    /\ out = <<>>
    /\ pc = "build"
    /\ nset = 0
    /\ ncorrupt = 0

Assign(lim, next) ==
    /\ pc = "build"
    /\ nset < lim
    /\ next # ctl
    /\ ctl' = next
    /\ nset' = nset + 1
    /\ UNCHANGED <<made, codes, res, out, pc, ncorrupt>>

SetMode(lim) == \E m \in Mode : Assign(lim, [ctl EXCEPT !.mode = m])

SetFan(lim) == \E x \in Fan : Assign(lim, [ctl EXCEPT !.fan = x])

SetFlag(lim) == \E n \in BoolFields : Assign(lim, [ctl EXCEPT ![n] = ~ctl[n]])

SetTiming(lim) ==
    \E e \in BOOLEAN, h \in 0..MaxHalfHours :
        Assign(lim, [ctl EXCEPT !.timing = [enabled |-> e, half_hours |-> h]])

SetVSwing(lim) == \E x \in SwingMode : Assign(lim, [ctl EXCEPT !.v_swing = x])

SetHSwing(lim) == \E x \in SwingMode : Assign(lim, [ctl EXCEPT !.h_swing = x])

SetTemperatureDisplay(lim) ==
    \E x \in TemperatureDisplay : Assign(lim, [ctl EXCEPT !.temperature_display = x])

\* the caller asks from_centigrade for a Temperature and stores it when it gets one
SetTemperature(lim) ==
    \E d \in 0..MaxDegrees :
        LET t == FromCentigrade(d) IN
        /\ pc = "build"
        /\ nset < lim
        /\ made # [arg |-> d, some |-> t.some]
        /\ made' = [arg |-> d, some |-> t.some]
        /\ ctl' = IF t.some THEN [ctl EXCEPT !.temperature = t.v] ELSE ctl
        /\ nset' = nset + 1
        /\ UNCHANGED <<codes, res, out, pc, ncorrupt>>

EncodeStep ==
    /\ pc = "build"
    /\ codes' = Encode(ctl)
    /\ pc' = "frame"
    /\ UNCHANGED <<ctl, made, res, out, nset, ncorrupt>>

\* the receiver is handed an array that differs from the one sent in one more symbol
Corrupt(lim) ==
    /\ pc = "frame"
    /\ ncorrupt < lim
    /\ \E p \in 0..(Len(codes) - 1), c \in Code :
          /\ At(codes, p) # c
          /\ codes' = [codes EXCEPT ![p + 1] = c]
    /\ ncorrupt' = ncorrupt + 1
    /\ UNCHANGED <<ctl, made, res, out, pc, nset>>

DecodeStep ==
    /\ pc = "frame"
    /\ res' = Decode(codes)
    /\ pc' = "done"
    /\ UNCHANGED <<ctl, made, codes, out, nset, ncorrupt>>

ReencodeStep ==
    /\ pc = "done"
    /\ res.ok
    /\ out' = Encode(res.val)
    /\ pc' = "recoded"
    /\ UNCHANGED <<ctl, made, codes, res, nset, ncorrupt>>

Next ==
    \/ SetMode(MaxSets)
    \/ SetFan(MaxSets)
    \/ SetFlag(MaxSets)
    \/ SetTiming(MaxSets)
    \/ SetVSwing(MaxSets)
    \/ SetHSwing(MaxSets)
    \/ SetTemperatureDisplay(MaxSets)
    \/ SetTemperature(MaxSets)
    \/ EncodeStep
    \/ DecodeStep
    \/ ReencodeStep

Spec == Init /\ [][Next]_vars

NextRx ==
    \/ SetMode(MaxRxSets)
    \/ SetFan(MaxRxSets)
    \/ SetFlag(MaxRxSets)
    \/ SetTiming(MaxRxSets)
    \/ SetVSwing(MaxRxSets)
    \/ SetHSwing(MaxRxSets)
    \/ SetTemperatureDisplay(MaxRxSets)
    \/ SetTemperature(MaxRxSets)
    \/ EncodeStep
    \/ Corrupt(MaxCorrupt)
    \/ DecodeStep
    \/ ReencodeStep

SpecRx == Init /\ [][NextRx]_vars

NextNoise ==
    \/ EncodeStep
    \/ Corrupt(MaxNoise)
    \/ DecodeStep
    \/ ReencodeStep

SpecNoise == Init /\ [][NextNoise]_vars

(***************************************************************************)
(* Vocabulary of the properties.  These read a frame by position, without  *)
(* the decoder: the value of a field is the number its symbols spell,      *)
(* least significant bit first.                                            *)
(***************************************************************************)
Markers == {"Start", "Continue", "End"}

\* an in-range Device State: the timer counts at most 48 half hours
InRangeState(c) ==
    /\ c.mode \in Mode /\ c.fan \in Fan
    /\ c.temperature \in 16..30
    /\ c.timing.half_hours \in 0..48
    /\ c.v_swing \in SwingMode /\ c.h_swing \in SwingMode
    /\ c.temperature_display \in TemperatureDisplay

\* the symbols at positions p .. p+w-1 are all Short or Long
IsData(f, p, w) == \A q \in p..(p + w - 1) : At(f, q) \in {"Short", "Long"}

RECURSIVE FieldValue(_, _, _)
FieldValue(f, p, w) ==
    IF w = 0 THEN 0
    ELSE (IF At(f, p) = "Long" THEN 1 ELSE 0) + 2 * FieldValue(f, p + 1, w - 1)

ReservedPositions == (52..62) \cup {64}

Decoded == pc \in {"done", "recoded"}

\* C1: decoding the 70 symbols that encode produced for an in-range state
\* succeeds and returns that state, equal in every attribute.
RoundTrip ==
    (Decoded /\ ncorrupt = 0 /\ InRangeState(ctl)) => (res.ok /\ res.val = ctl)

RoundTripWitness ==
    /\ pc = "done" /\ ncorrupt = 0 /\ nset = 2
    /\ ctl.timing = [enabled |-> TRUE, half_hours |-> 48]
    /\ ctl.h_swing = "Unknown15"
    /\ res.ok /\ res.val = ctl

\* C2: encode yields 70 symbols, Start at 0, Continue at 36, End at 69, data
\* symbols elsewhere, the three magic blocks at 26..32, 33..35 and 48..50 and
\* Short at the reserved positions 52..62 and 64, whatever the state.
FrameGeometry ==
    (pc = "frame" /\ ncorrupt = 0 /\ InRangeState(ctl)) =>
        /\ Len(codes) = 70
        /\ At(codes, 0) = "Start" /\ At(codes, 36) = "Continue" /\ At(codes, 69) = "End"
        /\ \A p \in (0..69) \ {0, 36, 69} : At(codes, p) \in {"Short", "Long"}
        /\ SubSeq(codes, 27, 33) = <<"Short", "Short", "Short", "Long", "Short", "Long", "Short">>
        /\ SubSeq(codes, 34, 36) = <<"Short", "Long", "Short">>
        /\ SubSeq(codes, 49, 51) = <<"Short", "Short", "Long">>
        /\ \A p \in ReservedPositions : At(codes, p) = "Short"

FrameGeometryWitness ==
    /\ pc = "frame" /\ ncorrupt = 0 /\ nset = 2
    /\ ctl.mode = "Hot" /\ ctl.econo
    /\ Len(codes) = 70 /\ At(codes, 63) = "Long" /\ At(codes, 3) = "Long"

\* C6: the checksum encode emits at positions 65..68 is (10 + the low nibbles of
\* bytes 0..3 + the high nibbles of bytes 4..6) mod 16, the bytes being the frame
\* positions 1..32 and 37..60 packed 8 symbols per byte, least significant first.
ChecksumOverPackedBytes ==
    (pc = "frame" /\ ncorrupt = 0 /\ InRangeState(ctl)) =>
        FieldValue(codes, 65, 4) =
            (10 + (FieldValue(codes, 1, 8) % 16) + (FieldValue(codes, 9, 8) % 16)
                + (FieldValue(codes, 17, 8) % 16) + (FieldValue(codes, 25, 8) % 16)
                + (FieldValue(codes, 37, 8) \div 16) + (FieldValue(codes, 45, 8) \div 16)
                + (FieldValue(codes, 53, 8) \div 16)) % 16

\* C3: a frame whose position 0 is not Start, or whose position 36 is not
\* Continue, or whose position 69 is not End, decodes to InvalidMarker whatever
\* its other symbols are.
MarkerIntegrity ==
    (Decoded /\ (\/ At(codes, 0) # "Start"
                 \/ At(codes, 36) # "Continue"
                 \/ At(codes, 69) # "End"))
        => (~res.ok /\ res.err = "InvalidMarker")

\* a wrong marker together with a marker in the mode field, which read alone
\* is UnexpectedMarker
MarkerIntegrityWitness ==
    /\ pc = "done" /\ ncorrupt = 2
    /\ At(codes, 69) = "Continue" /\ At(codes, 1) = "End"
    /\ res.err = "InvalidMarker"

\* the positions at which the received frame differs from the frame encode made
Replaced == LET sent == Encode(ctl) IN {p \in 0..69 : At(codes, p) # At(sent, p)}

\* C4: one symbol of a magic block of an encoded frame replaced by another gives
\* InvalidMagic(1) at 26..32, InvalidMagic(2) at 33..35 and InvalidMagic(3) at
\* 48..50, except that the first block turned into the second accepted pattern
\* decodes to the original state.
MagicEnforcement ==
    (Decoded /\ InRangeState(ctl) /\ Cardinality(Replaced) = 1) =>
        \A p \in Replaced :
            /\ p \in 26..32 =>
                 IF SubSeq(codes, 27, 33)
                      = <<"Short", "Short", "Short", "Long", "Long", "Long", "Short">>
                 THEN res.ok /\ res.val = ctl
                 ELSE ~res.ok /\ res.err = "InvalidMagic" /\ res.arg = 1
            /\ p \in 33..35 => (~res.ok /\ res.err = "InvalidMagic" /\ res.arg = 2)
            /\ p \in 48..50 => (~res.ok /\ res.err = "InvalidMagic" /\ res.arg = 3)

MagicEnforcementWitness ==
    /\ pc = "done" /\ ncorrupt = 1 /\ Replaced = {30}
    /\ ctl.timing = [enabled |-> TRUE, half_hours |-> 48]
    /\ At(codes, 30) = "Long"
    /\ res.ok /\ res.val = ctl

\* every attribute field of the frame is accepted by its decoder
FieldsAccepted(f) ==
    /\ IsData(f, 1, 25) /\ IsData(f, 37, 11) /\ IsData(f, 51, 1) /\ IsData(f, 63, 1)
    /\ FieldValue(f, 1, 3) <= 4
    /\ FieldValue(f, 9, 4) <= 14
    /\ FieldValue(f, 14, 2) <= 2
    /\ FieldValue(f, 17, 4) <= 9

MagicAccepted(f) ==
    /\ SubSeq(f, 27, 33) \in
          {<<"Short", "Short", "Short", "Long", "Short", "Long", "Short">>,
           <<"Short", "Short", "Short", "Long", "Long", "Long", "Short">>}
    /\ SubSeq(f, 34, 36) = <<"Short", "Long", "Short">>
    /\ SubSeq(f, 49, 51) = <<"Short", "Short", "Long">>

\* the state the fields of a frame spell, read by position
StateOf(f) ==
    [mode |-> ModeNames[FieldValue(f, 1, 3) + 1],
     on |-> At(f, 4) = "Long",
     fan |-> FanNames[FieldValue(f, 5, 2) + 1],
     swing |-> At(f, 7) = "Long",
     sleep |-> At(f, 8) = "Long",
     temperature |-> FieldValue(f, 9, 4) + 16,
     timing |-> [enabled |-> At(f, 16) = "Long",
                 half_hours |-> (FieldValue(f, 14, 2) * 10 + FieldValue(f, 17, 4)) * 2
                                + FieldValue(f, 13, 1)],
     strong |-> At(f, 21) = "Long",
     light |-> At(f, 22) = "Long",
     anion |-> At(f, 23) = "Long",
     dry |-> At(f, 24) = "Long",
     ventilate |-> At(f, 25) = "Long",
     v_swing |-> SwingNames[FieldValue(f, 37, 4) + 1],
     h_swing |-> SwingNames[FieldValue(f, 41, 4) + 1],
     temperature_display |-> DisplayNames[FieldValue(f, 45, 2) + 1],
     i_feel |-> At(f, 47) = "Long",
     wifi |-> At(f, 51) = "Long",
     econo |-> At(f, 63) = "Long"]

TemperatureRange ==
    /\ made.some <=> (16 <= made.arg /\ made.arg <= 30)
    /\ ctl.temperature \in 16..30
    /\ pc # "build" =>
          \A q \in {9, 37, 41} :
              IsData(codes, q, 4) =>
                  LET r == TemperatureDecode(codes, q)
                      n == FieldValue(codes, q, 4)
                  IN IF n = 15 THEN r.err = "InvalidTemperature"
                     ELSE r.err = "None" /\ r.v = n + 16 /\ r.pos = q + 4
    /\ Decoded =>
          /\ res.ok => (res.val.temperature \in 16..30
                        /\ res.val.temperature = FieldValue(codes, 9, 4) + 16)
          /\ res.err = "InvalidTemperature" =>
                (IsData(codes, 9, 4) /\ FieldValue(codes, 9, 4) = 15)

TemperatureRangeWitness ==
    /\ pc = "done" /\ ncorrupt = 1
    /\ ctl.temperature = 30 /\ made = [arg |-> 30, some |-> TRUE]
    /\ FieldValue(codes, 9, 4) = 15
    /\ res.err = "InvalidTemperature"

\* C8: every timer a successful decode produces has half_hours within 0..48, and
\* every 8-bit timer pattern that does not denote a count in 0..48 is rejected
\* with InvalidTimerSetting.
TimerDomain ==
    Decoded =>
        /\ res.ok => res.val.timing.half_hours \in 0..48
        /\ (/\ At(codes, 0) = "Start" /\ At(codes, 36) = "Continue"
            /\ At(codes, 69) = "End"
            /\ IsData(codes, 1, 20)
            /\ FieldValue(codes, 1, 3) <= 4
            /\ FieldValue(codes, 9, 4) <= 14
            /\ ~(/\ FieldValue(codes, 14, 2) <= 2
                 /\ FieldValue(codes, 17, 4) <= 9
                 /\ (FieldValue(codes, 14, 2) * 10 + FieldValue(codes, 17, 4)) * 2
                      + FieldValue(codes, 13, 1) <= 48))
              => (~res.ok /\ res.err = "InvalidTimerSetting")

\* C9: a frame with a marker symbol at any position other than 0, 36 and 69,
\* the reserved positions 52..62 and 64 included, is rejected by decode.
MisframingRejected ==
    (Decoded /\ \E p \in (0..69) \ {0, 36, 69} : At(codes, p) \in Markers) => ~res.ok

\* the frame with the symbol c at every reserved position
WithReserved(f, c) ==
    [q \in 1..Len(f) |-> IF (q - 1) \in ReservedPositions THEN c ELSE f[q]]

\* the frame with the first magic block replaced by the pattern m
WithFirstMagic(f, m) == SubSeq(f, 1, 26) \o m \o SubSeq(f, 34, Len(f))

\* the frame with Short at every reserved position and, when its first magic
\* block is one of the two accepted patterns, with the first of them
Normalised(f) ==
    LET g == WithReserved(f, "Short")
    IN IF SubSeq(f, 27, 33) = <<"Short", "Short", "Short", "Long", "Long", "Long", "Short">>
       THEN WithFirstMagic(g, <<"Short", "Short", "Short", "Long", "Short", "Long", "Short">>)
       ELSE g

\* C10: for a frame f that decode accepts, encode(decode(f)) is accepted and
\* decodes to the same state, and it equals f exactly when f carries the first
\* accepted pattern at 26..32 and Short at the reserved positions 52..62 and 64;
\* the result of decode depends neither on the reserved symbols nor on which of
\* the two accepted first-block patterns is present.
ReencodeNormalises ==
    /\ Decoded => Decode(Normalised(codes)) = res
    /\ pc = "recoded" =>
          /\ Decode(out).ok /\ Decode(out).val = res.val
          /\ (out = codes) <=>
                /\ SubSeq(codes, 27, 33)
                     = <<"Short", "Short", "Short", "Long", "Short", "Long", "Short">>
                /\ \A p \in ReservedPositions : At(codes, p) = "Short"
          /\ \A c \in Code : Decode(WithReserved(codes, c)) = res
          /\ Decode(WithFirstMagic(codes,
                <<"Short", "Short", "Short", "Long", "Short", "Long", "Short">>)) = res
          /\ Decode(WithFirstMagic(codes,
                <<"Short", "Short", "Short", "Long", "Long", "Long", "Short">>)) = res

ReencodeNormalisesWitness ==
    /\ pc = "recoded" /\ ncorrupt = 1
    /\ ctl.timing = [enabled |-> TRUE, half_hours |-> 48]
    /\ At(codes, 30) = "Long"
    /\ out # codes /\ At(out, 30) = "Short"
    /\ Decode(out).ok /\ Decode(out).val = ctl

====
